---- MODULE Spec2Model ----
(***************************************************************************)
(* A model of aqtlib/pg.py: the PG container (sqlalchemy Core + asyncpg).  *)
(* One PG instance, a bounded number of concurrently running query         *)
(* coroutines (fetchval / fetch / fetchrow / execute), one close()         *)
(* coroutine, and the synchronous calls init / create_tables /             *)
(* drop_tables.  A step of the model is what one coroutine does between    *)
(* two suspension points of the event loop; a synchronous call is one step.*)
(* asyncpg and sqlalchemy are the environment: their answers (a pool is    *)
(* built or the attempt fails, a connection becomes free, the driver call  *)
(* returns, raises or times out) are nondeterministic.                     *)
(***************************************************************************)
EXTENDS Integers, FiniteSets, Sequences, TLC

None == "None"
NoPool == 0

\* ---- bounds of the model
NumOps == 2
PoolSize == 1
MaxInits == 2
MaxLen == 2
MaxInt == 12

Ops == 1 .. NumOps
\* every pool is built by a coroutine that found no pool, so there are at
\* most as many pools as coroutines
Pools == 1 .. NumOps

DSNs == {"pg://a", "pg://b"}
Metadatas == {"md"}
Kinds == {"fetchval", "fetch", "fetchrow", "execute"}
Timeouts == {None, "t"}
\* the positional *args of a call, and the column keyword of fetchval
Args == {<<>>, <<42>>}
Columns == {0, 1}
NoColumn == -1

\* A query is raw text (isText) or a structured clause with one bound value.
Queries ==
    { [isText |-> TRUE,  sql |-> "SELECT 1", bind |-> ""],
      [isText |-> FALSE, sql |-> "SELECT ",  bind |-> "1"],
      [isText |-> FALSE, sql |-> "SELECT ",  bind |-> "?"] }

NoQuery == [isText |-> TRUE, sql |-> "", bind |-> ""]

\* Task 1 is the operation under observation: it makes any of the four calls
\* with any query.  The other tasks are the operations running beside it;
\* which method they run and what they send has no effect on the instance, so
\* they run execute() on raw text with no args.  Every task chooses its
\* timeout.  Only fetchval takes a column.
KindsOf(o) == IF o = 1 THEN Kinds ELSE {"execute"}
QueriesOf(o) == IF o = 1 THEN Queries ELSE {q \in Queries : q.isText}
ArgsOf(o) == IF o = 1 THEN Args ELSE {<<>>}
ColumnsOf(k) == IF k = "fetchval" THEN Columns ELSE {NoColumn}
NoCall == [method |-> None, query |-> None, args |-> <<>>,
           column |-> NoColumn, timeout |-> None]

Errors == {"AttributeError", "ArgumentError", "CompileError", "PoolError",
           "InterfaceError", "DriverError", "TimeoutError", "CancelledError"}

VARIABLES
    dsn, metadata, engine, pool,            \* PG._dsn, _metadata, _engine, _pool
    initCalls, initCreateTables, initCreateAll, lastDDL, initArgs,
    poolState, poolDsn, out,                \* the asyncpg pools built so far
    pc, kind, query, args, col, sql, tmo, lit, cdsn, target, call, outcome,
    cpc, ctarget, closeLog,
    stalled,
    value, escBytes, rendered               \* one run of StringLiteral's process

pgVars == <<dsn, metadata, engine, pool>>
ddlVars == <<initCalls, initCreateTables, initCreateAll, lastDDL, initArgs>>
poolVars == <<poolState, poolDsn, out>>
opVars == <<pc, kind, query, args, col, sql, tmo, lit, cdsn, target, call,
           outcome>>
closeVars == <<cpc, ctarget, closeLog>>
litVars == <<value, escBytes, rendered>>
vars == <<pgVars, ddlVars, poolVars, opVars, closeVars, stalled, litVars>>

InFlight == {"connect", "acquire", "driver"}

\* PG.__init__
InitPG ==
    /\ dsn = None /\ metadata = None /\ engine = None /\ pool = NoPool
    /\ initCalls = 0 /\ initCreateTables = 0 /\ initCreateAll = 0
    /\ lastDDL = None /\ initArgs = <<None, None>>
    /\ poolState = [p \in Pools |-> "none"]
    /\ poolDsn = [p \in Pools |-> None]
    /\ out = [p \in Pools |-> 0]
    /\ pc = [o \in Ops |-> "idle"]
    /\ kind = [o \in Ops |-> None]
    /\ query = [o \in Ops |-> NoQuery]
    /\ args = [o \in Ops |-> <<>>]
    /\ col = [o \in Ops |-> NoColumn]
    /\ sql = [o \in Ops |-> None]
    /\ tmo = [o \in Ops |-> None]
    /\ lit = [o \in Ops |-> None]
    /\ cdsn = [o \in Ops |-> None]
    /\ target = [o \in Ops |-> NoPool]
    /\ call = [o \in Ops |-> NoCall]
    /\ outcome = [o \in Ops |-> None]
    /\ cpc = "idle" /\ ctarget = NoPool /\ closeLog = <<>>
    /\ stalled = FALSE

\* ------------------------------------------------- literal value rendering

\* Text is a sequence of characters; a value bound in a query is an int, a
\* str, or an object of another type, described by the text str() gives.
Chars == {"a", "'", "%"}
Texts == UNION {[1 .. n -> Chars] : n \in 0 .. MaxLen}
Values ==
    {[type |-> "int", n |-> i, text |-> <<>>] : i \in -MaxInt .. MaxInt}
    \cup {[type |-> "str", n |-> 0, text |-> t] : t \in Texts}
    \cup {[type |-> "other", n |-> 0, text |-> t] : t \in Texts}
NoValue == [type |-> None, n |-> 0, text |-> <<>>]
NoRender == [isBytes |-> FALSE, data |-> <<"None">>]

DigitChar(d) == <<"0", "1", "2", "3", "4", "5", "6", "7", "8", "9">>[d + 1]

RECURSIVE Digits(_)
Digits(n) ==
    IF n < 10 THEN <<DigitChar(n)>>
    ELSE Digits(n \div 10) \o <<DigitChar(n % 10)>>

\* str(value)
str(v) ==
    IF v.type = "int"
    THEN (IF v.n < 0 THEN <<"-">> \o Digits(-v.n) ELSE Digits(v.n))
    ELSE v.text

\* the dialect's encoding, on the characters used here
CodeOf(c) ==
    CASE c = "a" -> 97 [] c = "'" -> 39 [] c = "%" -> 37

encode(t) == [i \in 1 .. Len(t) |-> CodeOf(t[i])]

\* bytes.decode(dialect.encoding)
decode(b) == [i \in 1 .. Len(b) |-> CHOOSE c \in Chars : CodeOf(c) = b[i]]

RECURSIVE Doubled(_)
Doubled(t) ==
    IF t = <<>> THEN <<>>
    ELSE (IF Head(t) \in {"'", "%"} THEN <<Head(t), Head(t)>> ELSE <<Head(t)>>)
         \o Doubled(Tail(t))

\* String.literal_processor(dialect) of sqlalchemy, the base escaper: quotes
\* (and, under the pyformat paramstyle, percent signs) are doubled and the
\* text is put between quotes.  Whether it hands back str or bytes is the
\* dialect's business (asBytes).
super_processor(t, asBytes) ==
    LET e == <<"'">> \o Doubled(t) \o <<"'">> IN
    IF asBytes THEN [isBytes |-> TRUE, data |-> encode(e)]
    ELSE [isBytes |-> FALSE, data |-> e]

\* A process that hands on what the escaper returned, bytes included.
processNoDecode(v, asBytes) ==
    IF v.type = "int" THEN [isBytes |-> FALSE, data |-> str(v)]
    ELSE super_processor(IF v.type # "str" THEN str(v) ELSE v.text, asBytes)

\* StringLiteral.literal_processor(dialect).process
process(v, asBytes) ==
    IF v.type = "int" THEN [isBytes |-> FALSE, data |-> str(v)]
    ELSE LET t == IF v.type # "str" THEN str(v) ELSE v.text
             result == super_processor(t, asBytes)
         IN  IF result.isBytes
             THEN [isBytes |-> FALSE, data |-> decode(result.data)]
             ELSE result

Init ==
    /\ InitPG
    /\ value = NoValue /\ escBytes = FALSE /\ rendered = NoRender

\* ---------------------------------------------------------------- DDL side

\* sqlalchemy.create_engine(url): lazy, it opens no connection; an unbound
\* (None) url is rejected.
create_engine(d) ==
    IF d = None THEN [engine |-> None, raised |-> "ArgumentError"]
    ELSE [engine |-> d, raised |-> None]

\* An engine property that builds a fresh engine on every access.
EngineNotCached(eng, d) == create_engine(d)

\* PG.engine (property): the engine is created on first access and cached.
EngineProperty(eng, d) ==
    IF eng = None THEN create_engine(d) ELSE [engine |-> eng, raised |-> None]

\* self._metadata.<create_all|drop_all>(self.engine): the attribute lookup on
\* self._metadata comes first, then the engine property, then the DDL itself.
\* (An error of the database in the DDL leaves the same PG state behind and
\* is not told apart here.)
MetadataDDL(md, eng, d) ==
    IF md = None
    THEN [engine |-> eng, raised |-> "AttributeError", ddl |-> 0]
    ELSE LET e == EngineProperty(eng, d) IN
         IF e.raised # None
         THEN [engine |-> eng, raised |-> e.raised, ddl |-> 0]
         ELSE [engine |-> e.engine,
               raised |-> None, ddl |-> 1]

\* PG.create_tables
create_tables(md, eng, d) == MetadataDDL(md, eng, d)

\* PG.drop_tables
drop_tables(md, eng, d) == MetadataDDL(md, eng, d)

\* An init that creates the tables only while no engine is cached yet.
initOnce(d, m, eng) ==
    IF eng # None
    THEN [dsn |-> d, metadata |-> m, engine |-> eng, raised |-> None,
          createTables |-> 0, createAll |-> 0]
    ELSE LET r == create_tables(m, eng, d) IN
         [dsn |-> d, metadata |-> m, engine |-> r.engine, raised |-> r.raised,
          createTables |-> 1, createAll |-> r.ddl]

\* PG.init: bind, then create the schema tables.
init(d, m, eng) ==
    LET r == create_tables(m, eng, d) IN
    [dsn |-> d, metadata |-> m, engine |-> r.engine, raised |-> r.raised,
     createTables |-> 1, createAll |-> r.ddl]

Result(raised) == IF raised = None THEN "ok" ELSE raised

\* A call of init.  initCalls counts the calls, initCreateTables the times a
\* call of init entered create_tables, initCreateAll the times it issued
\* metadata.create_all; initArgs are the arguments of the latest call.
InitCall(d, m) ==
    /\ initCalls < MaxInits
    /\ LET r == init(d, m, engine) IN
       /\ dsn' = r.dsn /\ metadata' = r.metadata /\ engine' = r.engine
       /\ initCreateTables' = initCreateTables + r.createTables
       /\ initCreateAll' = initCreateAll + r.createAll
       /\ lastDDL' = Result(r.raised)
    /\ initCalls' = initCalls + 1
    /\ initArgs' = <<d, m>>
    /\ UNCHANGED <<pool, poolVars, opVars, closeVars, stalled, litVars>>

\* A call of create_tables by the user; lastDDL is how the latest DDL call ended.
CreateTablesCall ==
    /\ LET r == create_tables(metadata, engine, dsn) IN
       /\ engine' = r.engine
       /\ lastDDL' = Result(r.raised)
    /\ UNCHANGED <<dsn, metadata, pool, initCalls, initCreateTables,
                   initCreateAll, initArgs, poolVars, opVars, closeVars, stalled, litVars>>

\* A call of drop_tables by the user.
DropTablesCall ==
    /\ LET r == drop_tables(metadata, engine, dsn) IN
       /\ engine' = r.engine
       /\ lastDDL' = Result(r.raised)
    /\ UNCHANGED <<dsn, metadata, pool, initCalls, initCreateTables,
                   initCreateAll, initArgs, poolVars, opVars, closeVars, stalled, litVars>>

\* -------------------------------------------------------------- query side

\* PG._literalquery: compile the clause with its bound value inlined; a value
\* the dialect cannot render makes compile() raise.
literalquery(q) ==
    IF q.bind = "?" THEN [text |-> None, raised |-> "CompileError"]
    ELSE [text |-> q.sql \o q.bind, raised |-> None]

\* A normalisation that puts the rendering off until a connection is held.
NormaliseDeferred(q) == [text |-> q.sql, lit |-> None, raised |-> None]

\* The first two lines of fetchval / fetch / fetchrow / execute: a query that
\* is not a str is replaced by its literal rendering.
Normalise(q) ==
    IF q.isText THEN [text |-> q.sql, lit |-> None, raised |-> None]
    ELSE LET r == literalquery(q) IN
         [text |-> r.text, lit |-> r.text, raised |-> r.raised]

\* PG.connection: `if not self._pool`
ConnectionGuard(p) == p = NoPool

\* A connection() that gives the connection back after the `yield` only,
\* with no `async with` around it: an exception thrown into the generator
\* skips the release.
ScopeExitOnReturnOnly(outf, p, how) ==
    IF how = "return" THEN [outf EXCEPT ![p] = @ - 1] ELSE outf

\* PG.connection: leaving `async with self._pool.acquire() as conn` gives the
\* connection back, however the body ended (how: return, raise, cancel).
ScopeExit(outf, p, how) == [outf EXCEPT ![p] = @ - 1]

\* The coroutine o ends with result r; its locals are dropped.
Finish(o, r, p) ==
    /\ pc' = [pc EXCEPT ![o] = "done"]
    /\ outcome' = [outcome EXCEPT ![o] = r]
    /\ target' = [target EXCEPT ![o] = p]
    /\ kind' = [kind EXCEPT ![o] = None]
    /\ query' = [query EXCEPT ![o] = NoQuery]
    /\ args' = [args EXCEPT ![o] = <<>>]
    /\ col' = [col EXCEPT ![o] = NoColumn]
    /\ sql' = [sql EXCEPT ![o] = None]
    /\ tmo' = [tmo EXCEPT ![o] = None]
    /\ lit' = [lit EXCEPT ![o] = None]
    /\ cdsn' = [cdsn EXCEPT ![o] = None]
    /\ call' = [call EXCEPT ![o] = NoCall]

\* fetchval / fetch / fetchrow / execute, from the call to the first
\* suspension: normalise the query, enter connection(), and either start
\* asyncpg.create_pool(self._dsn) or call self._pool.acquire().
Start(o, k, q, a, c, t) ==
    /\ pc[o] = "idle"
    /\ LET n == Normalise(q) IN
       IF n.raised # None
       THEN Finish(o, n.raised, NoPool)
       ELSE IF ConnectionGuard(pool)
       THEN /\ pc' = [pc EXCEPT ![o] = "connect"]
            /\ cdsn' = [cdsn EXCEPT ![o] = dsn]
            /\ kind' = [kind EXCEPT ![o] = k]
            /\ query' = [query EXCEPT ![o] = q]
            /\ args' = [args EXCEPT ![o] = a]
            /\ col' = [col EXCEPT ![o] = c]
            /\ sql' = [sql EXCEPT ![o] = n.text]
            /\ lit' = [lit EXCEPT ![o] = n.lit]
            /\ tmo' = [tmo EXCEPT ![o] = t]
            /\ UNCHANGED <<target, call, outcome>>
       ELSE IF pool = NoPool
       THEN Finish(o, "AttributeError", NoPool)
       ELSE IF poolState[pool] # "open"
       THEN Finish(o, "InterfaceError", pool)
       ELSE /\ pc' = [pc EXCEPT ![o] = "acquire"]
            /\ target' = [target EXCEPT ![o] = pool]
            /\ kind' = [kind EXCEPT ![o] = k]
            /\ query' = [query EXCEPT ![o] = q]
            /\ args' = [args EXCEPT ![o] = a]
            /\ col' = [col EXCEPT ![o] = c]
            /\ sql' = [sql EXCEPT ![o] = n.text]
            /\ lit' = [lit EXCEPT ![o] = n.lit]
            /\ tmo' = [tmo EXCEPT ![o] = t]
            /\ UNCHANGED <<cdsn, call, outcome>>
    /\ UNCHANGED <<pgVars, ddlVars, poolVars, closeVars, stalled, litVars>>

NewPool == CHOOSE p \in Pools :
    poolState[p] = "none" /\ \A r \in Pools : r < p => poolState[r] # "none"

\* PG._connect resumes: create_pool returned a pool, it is stored in
\* self._pool, and connection() goes on to self._pool.acquire().
ConnectDone(o) ==
    /\ pc[o] = "connect"
    /\ ~stalled
    /\ \E p \in Pools : poolState[p] = "none"
    /\ LET p == NewPool IN
       /\ poolState' = [poolState EXCEPT ![p] = "open"]
       /\ poolDsn' = [poolDsn EXCEPT ![p] = cdsn[o]]
       /\ pool' = p
       /\ target' = [target EXCEPT ![o] = p]
    /\ pc' = [pc EXCEPT ![o] = "acquire"]
    /\ cdsn' = [cdsn EXCEPT ![o] = None]
    /\ UNCHANGED <<dsn, metadata, engine, ddlVars, out, kind, query, args, col,
                   sql, tmo, lit, call, outcome, closeVars, stalled, litVars>>

\* A _connect() that swallows the error of create_pool: connection() goes
\* on to self._pool.acquire() with no pool.
ConnectFailSwallowed(o) ==
    /\ pc[o] = "connect"
    /\ Finish(o, "AttributeError", NoPool)
    /\ UNCHANGED <<pgVars, ddlVars, poolVars, closeVars, stalled, litVars>>

\* create_pool raised (the server refused or could not be reached): the
\* error leaves the operation, self._pool is not assigned.
ConnectFail(o) ==
    /\ pc[o] = "connect"
    /\ Finish(o, "PoolError", NoPool)
    /\ UNCHANGED <<pgVars, ddlVars, poolVars, closeVars, stalled, litVars>>

\* A driver call that leaves the caller's timeout out.
DriverCallNoTimeout(k, s, a, c, t) ==
    [method |-> k, query |-> s, args |-> a,
     column |-> IF k = "fetchval" THEN c ELSE NoColumn, timeout |-> None]

\* conn.fetchval(query, *args, column=column, timeout=timeout) and
\* conn.<fetch|fetchrow|execute>(query, *args, timeout=timeout)
DriverCall(k, s, a, c, t) ==
    [method |-> k, query |-> s, args |-> a,
     column |-> IF k = "fetchval" THEN c ELSE NoColumn, timeout |-> t]

\* pool.acquire() resumes with a free connection, and the driver method of
\* the operation's kind is called on it.
AcquireDone(o) ==
    /\ pc[o] = "acquire"
    /\ poolState[target[o]] = "open"
    /\ out[target[o]] < PoolSize
    /\ out' = [out EXCEPT ![target[o]] = @ + 1]
    /\ pc' = [pc EXCEPT ![o] = "driver"]
    /\ call' = [call EXCEPT ![o] =
                  DriverCall(kind[o], sql[o], args[o], col[o], tmo[o])]
    /\ UNCHANGED <<pgVars, ddlVars, poolState, poolDsn, kind, query, args, col,
                   sql, tmo, lit, cdsn, target, outcome, closeVars, stalled, litVars>>

\* pool.acquire() raises: the pool was closed while the operation waited.
AcquireFail(o) ==
    /\ pc[o] = "acquire"
    /\ poolState[target[o]] # "open"
    /\ Finish(o, "InterfaceError", target[o])
    /\ UNCHANGED <<pgVars, ddlVars, poolVars, closeVars, stalled, litVars>>

\* The body of `async with self.connection() as conn` ends (how, result r):
\* the scope is left and the connection released.
LeaveScope(o, how, r) ==
    /\ pc[o] = "driver"
    /\ out' = ScopeExit(out, target[o], how)
    /\ Finish(o, r, target[o])
    /\ UNCHANGED <<pgVars, ddlVars, poolState, poolDsn, closeVars, stalled, litVars>>

DriverReturn(o) == ~stalled /\ LeaveScope(o, "return", "ok")

DriverRaise(o) == ~stalled /\ LeaveScope(o, "raise", "DriverError")

\* the driver enforces the timeout the caller passed
DriverTimeout(o) == call[o].timeout # None /\ LeaveScope(o, "raise", "TimeoutError")

\* The caller cancels the task at its current suspension point.
Cancel(o) ==
    \/ /\ pc[o] \in {"connect", "acquire"}
       /\ Finish(o, "CancelledError", target[o])
       /\ UNCHANGED <<pgVars, ddlVars, poolVars, closeVars, stalled, litVars>>
    \/ LeaveScope(o, "cancel", "CancelledError")

\* The caller has taken the result; the task slot is free for the next call.
Reap(o) ==
    /\ pc[o] = "done"
    /\ pc' = [pc EXCEPT ![o] = "idle"]
    /\ outcome' = [outcome EXCEPT ![o] = None]
    /\ target' = [target EXCEPT ![o] = NoPool]
    /\ UNCHANGED <<pgVars, ddlVars, poolVars, kind, query, args, col, sql, tmo,
                   lit, cdsn, call, closeVars, stalled, litVars>>

\* ------------------------------------------------------------------- close

\* A close() without its guard.
CloseGuardMissing(p) == FALSE

\* PG.close: `if not self._pool`
CloseGuard(p) == p = NoPool

\* PG.close, from the call to its suspension in `await self._pool.close()`.
\* closeLog lists what the call has done so far: the warning, the call of
\* Pool.close(), the debug line.  Pool.close() on a pool that is already
\* closed returns at once.
CloseCall ==
    /\ cpc = "idle"
    /\ IF CloseGuard(pool)
       THEN /\ cpc' = "done"
            /\ closeLog' = <<"warning">>
            /\ UNCHANGED <<ctarget, poolState>>
       ELSE IF pool = NoPool
       THEN /\ cpc' = "done"
            /\ closeLog' = <<"AttributeError">>
            /\ UNCHANGED <<ctarget, poolState>>
       ELSE IF poolState[pool] = "closed"
       THEN /\ cpc' = "done"
            /\ closeLog' = <<"Pool.close", "debug">>
            /\ UNCHANGED <<ctarget, poolState>>
       ELSE /\ cpc' = "closing"
            /\ closeLog' = <<"Pool.close">>
            /\ ctarget' = pool
            /\ poolState' = [poolState EXCEPT ![pool] = "closing"]
    /\ UNCHANGED <<pgVars, ddlVars, poolDsn, out, opVars, stalled, litVars>>

\* A close() that also disposes of the engine.
CloseDoneDisposing ==
    /\ cpc = "closing"
    /\ out[ctarget] = 0
    /\ poolState' = [poolState EXCEPT ![ctarget] = "closed"]
    /\ cpc' = "done"
    /\ closeLog' = Append(closeLog, "debug")
    /\ ctarget' = NoPool
    /\ engine' = None
    /\ UNCHANGED <<dsn, metadata, pool, ddlVars, poolDsn, out, opVars, stalled,
                   litVars>>

\* Pool.close() resumes once every connection has been released; close()
\* logs at debug level and returns.  self._pool is left as it is.
CloseDone ==
    /\ cpc = "closing"
    /\ out[ctarget] = 0
    /\ poolState' = [poolState EXCEPT ![ctarget] = "closed"]
    /\ cpc' = "done"
    /\ closeLog' = Append(closeLog, "debug")
    /\ ctarget' = NoPool
    /\ UNCHANGED <<pgVars, ddlVars, poolDsn, out, opVars, stalled, litVars>>

\* The caller has seen close() return.
CloseReap ==
    /\ cpc = "done"
    /\ cpc' = "idle"
    /\ closeLog' = <<>>
    /\ UNCHANGED <<pgVars, ddlVars, poolVars, opVars, ctarget, stalled, litVars>>

\* ------------------------------------------------------------- environment

\* From now on the backend never answers.
Stall ==
    /\ ~stalled
    /\ stalled' = TRUE
    /\ UNCHANGED <<pgVars, ddlVars, poolVars, opVars, closeVars, litVars>>

Next ==
    \/ \E d \in DSNs, m \in Metadatas : InitCall(d, m)
    \/ CreateTablesCall
    \/ DropTablesCall
    \/ \E o \in Ops : \E k \in KindsOf(o), q \in QueriesOf(o), t \in Timeouts :
          \E a \in ArgsOf(o), c \in ColumnsOf(k) : Start(o, k, q, a, c, t)
    \/ \E o \in Ops : ConnectDone(o)
    \/ \E o \in Ops : ConnectFail(o)
    \/ \E o \in Ops : AcquireDone(o)
    \/ \E o \in Ops : AcquireFail(o)
    \/ \E o \in Ops : DriverReturn(o)
    \/ \E o \in Ops : DriverRaise(o)
    \/ \E o \in Ops : DriverTimeout(o)
    \/ \E o \in Ops : Cancel(o)
    \/ \E o \in Ops : Reap(o)
    \/ CloseCall
    \/ CloseDone
    \/ CloseReap

Spec == Init /\ [][Next]_vars

\* The same system with a backend that may stop answering.
SpecStalled == Init /\ [][Next \/ Stall]_vars

\* The literal renderer alone: any value, under a dialect whose escaper
\* returns str or bytes, is rendered once.
InitLiteral ==
    /\ InitPG
    /\ value \in Values /\ escBytes \in BOOLEAN /\ rendered = NoRender

Render ==
    /\ rendered = NoRender
    /\ rendered' = process(value, escBytes)
    /\ UNCHANGED <<pgVars, ddlVars, poolVars, opVars, closeVars, stalled,
                   value, escBytes>>

SpecLiteral == InitLiteral /\ [][Render]_vars

\* ================================================================== claims

Idle == \A o \in Ops : pc[o] \notin InFlight
Built == {p \in Pools : poolState[p] # "none"}
NoCloseYet == \A p \in Pools : poolState[p] \in {"none", "open"}
\* task o is called in this step
Called(o) == pc[o] = "idle" /\ pc'[o] # "idle"
\* close() is called in this step
CloseCalled == cpc = "idle" /\ cpc' # "idle"

\* C1: the text handed to the driver method is never a text that
\* _literalquery produced.
C1_LiteralNeverExecuted ==
    \A o \in Ops : pc[o] = "driver" => (lit[o] = None \/ call[o].query # lit[o])

\* C2: on an initialized instance with no close, at most one pool is ever
\* built, and a pool that has been built is the one self._pool holds (it is
\* never overwritten or orphaned).
C2_PoolBuiltOnce ==
    (initCalls > 0 /\ NoCloseYet /\ \A p \in Built : poolDsn[p] # None) =>
        /\ Cardinality(Built) <= 1
        /\ \A p \in Built : pool = p

\* C3: the connections checked out of a pool are exactly those held by the
\* operations now inside their connection scope; so whenever no operation
\* is in flight no connection is checked out, whichever way the operations
\* ended (return, error of the driver, timeout, cancellation).
C3_ScopedRelease ==
    /\ \A p \in Pools :
          out[p] = Cardinality({o \in Ops : pc[o] = "driver" /\ target[o] = p})
    /\ Idle => \A p \in Pools : out[p] = 0

\* an operation failed in the driver call, and nothing is in flight or
\* checked out afterwards
C3_Witness ==
    /\ Idle
    /\ \E o \in Ops : pc[o] = "done" /\ outcome[o] = "DriverError"
                      /\ out[target[o]] = 0

\* What an operation in flight can do without the caller's help.
Resume(o) ==
    \/ ConnectDone(o) \/ ConnectFail(o)
    \/ AcquireDone(o) \/ AcquireFail(o)
    \/ DriverReturn(o) \/ DriverRaise(o) \/ DriverTimeout(o)

Progress == (\E o \in Ops : Resume(o)) \/ CloseDone

\* C4: an operation called with a timeout against a backend that never
\* answers does not hang: while it is in flight, it or an operation it waits
\* for can still take a step (and the only step left to it in the driver call
\* is the timeout).
C4_TimeoutEnforcement ==
    \A o \in Ops :
        (stalled /\ pc[o] \in InFlight /\ tmo[o] # None) => ENABLED Progress

\* C5: close() called on an instance whose pool an earlier close() has closed
\* logs the warning and does nothing else: it does not call Pool.close()
\* again.
C5_DoubleClose ==
    [][(CloseCalled /\ pool # NoPool /\ poolState[pool] = "closed") =>
          (cpc' = "done" /\ closeLog' = <<"warning">>)]_vars

\* C6: close() called while self._pool holds no pool logs the warning and
\* returns without raising, and leaves _dsn, _metadata, _engine and _pool
\* as they are.
C6_CloseWithoutPool ==
    [][(CloseCalled /\ pool = NoPool) =>
          /\ cpc' = "done"
          /\ closeLog' = <<"warning">>
          /\ UNCHANGED <<dsn, metadata, engine, pool>>]_vars

\* close() has returned with the warning on an initialized instance that
\* has no pool
C6_Witness ==
    cpc = "done" /\ closeLog = <<"warning">> /\ pool = NoPool /\ dsn # None

\* C7: before init, every query and DDL operation ends in an error, no
\* engine and no pool is built, and create_pool is never called with an
\* unbound connection string.
C7_BeforeInit ==
    /\ \A o \in Ops : pc[o] = "connect" => cdsn[o] # None
    /\ \A p \in Built : poolDsn[p] # None
    /\ initCalls = 0 =>
          /\ engine = None /\ pool = NoPool /\ lastDDL # "ok"
          /\ \A o \in Ops : pc[o] = "done" => outcome[o] \in Errors

\* C8: after a single init and with no close, an operation called after
\* another one has ended in its driver call (with a result or an error) is
\* given the pool that one used (unless its query cannot be rendered and it
\* never asks for a connection), and builds none.
C8_PoolReuse ==
    [][\A o, e \in Ops :
          (/\ Called(o)
           /\ initCalls = 1 /\ NoCloseYet
           /\ pc[e] = "done" /\ outcome[e] \in {"ok", "DriverError"}) =>
              /\ pc'[o] # "connect"
              /\ outcome'[o] # "CompileError" => target'[o] = target[e]]_vars

\* C9: every call of init binds its two arguments and enters create_tables
\* once, which issues create_all once: after n calls of init, init has
\* issued create_all n times.
C9_InitCreatesTables ==
    /\ initCreateTables = initCalls
    /\ initCreateAll = initCalls
    /\ initCalls > 0 => (dsn = initArgs[1] /\ metadata = initArgs[2])

\* init was called twice, the second time with another connection string
\* and the engine of the first call cached, and ran the DDL both times
C9_Witness ==
    initCalls = 2 /\ engine # None /\ engine # dsn /\ initCreateAll = 2

\* C10: once a close() has closed a pool, an operation called afterwards
\* builds no pool and fails at once; unless its query cannot be rendered, it
\* is the closed pool that refuses it.
C10_NoReconnect ==
    [][\A o \in Ops :
          (Called(o) /\ \E p \in Pools : poolState[p] = "closed") =>
              /\ pc'[o] = "done"
              /\ outcome'[o] \in Errors
              /\ outcome'[o] # "CompileError" =>
                    (target'[o] # NoPool /\ poolState[target'[o]] = "closed")]_vars

\* C11: when a close() that found a pool has returned (it called Pool.close()
\* and logged the debug line), self._pool holds no pool any more, as before
\* the first query.
C11_CloseResetsPool ==
    (cpc = "done" /\ closeLog = <<"Pool.close", "debug">>) => pool = NoPool

\* C12: while an operation is in flight its query text is the caller's text
\* if the query is raw text (nothing was rendered), and otherwise the text
\* _literalquery renders for it, already there before a connection is asked
\* for; and the operation makes one driver call, of its own kind, with that
\* text, the caller's args and timeout and, for fetchval, the caller's column.
C12_NormaliseAndDelegate ==
    \A o \in Ops :
        /\ pc[o] \in InFlight =>
              IF query[o].isText
              THEN sql[o] = query[o].sql /\ lit[o] = None
              ELSE sql[o] = query[o].sql \o query[o].bind /\ lit[o] = sql[o]
        /\ pc[o] = "driver" =>
              /\ call[o].method = kind[o]
              /\ call[o].query = sql[o]
              /\ call[o].args = args[o]
              /\ call[o].timeout = tmo[o]
              /\ call[o].column = IF kind[o] = "fetchval" THEN col[o] ELSE NoColumn
        /\ pc[o] # "driver" => call[o] = NoCall

\* fetchval of a structured query with an argument, a column and a timeout
\* has reached its driver call
C12_Witness ==
    /\ pc[1] = "driver" /\ kind[1] = "fetchval" /\ ~query[1].isText
    /\ args[1] = <<42>> /\ col[1] = 1 /\ tmo[1] = "t"

\* C13: creation is lazy and follows Uninitialized -> Initialized ->
\* PoolConnected -> Closed: a call of init or of a DDL operation leaves the
\* pool alone, and init leaves an engine behind; a step of a query operation
\* leaves the engine alone; a pool is built only by a query operation inside
\* connection(), on an initialized instance, and it is the first pool; only
\* a pool that was built is closed.
C13_LazyLifecycle ==
    [][/\ (initCalls' # initCalls \/ lastDDL' # lastDDL \/ engine' # engine) =>
             UNCHANGED <<pool, poolState>>
       /\ initCalls' # initCalls => engine' # None
       /\ (\E o \in Ops : pc'[o] # pc[o]) => engine' = engine
       /\ \A p \in Pools :
             (poolState[p] = "none" /\ poolState'[p] # "none") =>
                 /\ \E o \in Ops : pc[o] = "connect" /\ pc'[o] = "acquire"
                 /\ initCalls > 0
                 /\ Built = {}
       /\ \A p \in Pools :
             (poolState'[p] \in {"closing", "closed"}) => poolState[p] # "none"
      ]_vars

\* C14: an operation whose pool construction ends without a pool ends there
\* (it does not try again) with the error create_pool raised (or with the
\* caller's cancellation); the step builds no pool, checks out no connection
\* and leaves self._pool as it is: unset, unless another operation has built
\* a pool meanwhile.
C14_NoRetry ==
    [][\A o \in Ops :
          (pc[o] = "connect" /\ pc'[o] # "connect" /\ pc'[o] # "acquire") =>
              /\ pc'[o] = "done"
              /\ outcome'[o] \in {"PoolError", "CancelledError"}
              /\ target'[o] = NoPool
              /\ UNCHANGED <<pool, poolState, poolDsn, out>>
              /\ Built = {} => pool' = NoPool]_vars

\* on an initialized instance an operation has ended with the error of
\* create_pool, and there is no pool
C14_Witness ==
    /\ initCalls > 0 /\ pool = NoPool /\ Built = {}
    /\ \E o \in Ops : pc[o] = "done" /\ outcome[o] = "PoolError"

\* the integer a decimal text stands for
RECURSIVE DecimalValue(_)
DecimalValue(t) ==
    IF t = <<>> THEN 0
    ELSE IF Head(t) = "-" THEN -DecimalValue(Tail(t))
    ELSE 10 * DecimalValue(SubSeq(t, 1, Len(t) - 1))
         + (CHOOSE d \in 0 .. 9 : DigitChar(d) = t[Len(t)])

C16_InitKeepsEngineAndPool ==
    [][/\ engine # None => engine' = engine
       /\ (engine = None /\ engine' # None) =>
             (initCalls' = initCalls + 1 /\ engine' = initArgs'[1])
       /\ \A p \in Pools :
             /\ poolState[p] # "none" => poolDsn'[p] = poolDsn[p]
             /\ (poolState[p] = "none" /\ poolState'[p] # "none") =>
                   \E o \in Ops : pc[o] = "connect" /\ poolDsn'[p] = cdsn[o]
       /\ initCalls' # initCalls =>
             (dsn' = initArgs'[1] /\ UNCHANGED <<pool, poolState, poolDsn>>)
      ]_vars

\* after a second init with another connection string, the engine and the
\* pool in use are still those of the first connection string
C16_Witness ==
    /\ initCalls = 2 /\ dsn = "pg://b" /\ engine = "pg://a"
    /\ pool # NoPool /\ poolState[pool] = "open" /\ poolDsn[pool] = "pg://a"

\* C17: a structured query is rendered before connection() is entered: an
\* operation waiting for the pool or for a connection, or in its driver
\* call, already holds the rendering of its query; and an operation whose
\* query cannot be rendered ends in the call with that error, targets no
\* pool, and leaves the instance and the pools as they were.
C17_RenderBeforeAcquire ==
    [][\A o \in Ops :
          /\ (pc'[o] \in InFlight /\ ~query'[o].isText) =>
                (lit'[o] # None /\ query'[o].bind # "?")
          /\ (Called(o) /\ outcome'[o] = "CompileError") =>
                /\ pc'[o] = "done"
                /\ target'[o] = NoPool
                /\ UNCHANGED <<dsn, metadata, engine, pool, poolState, poolDsn,
                               out>>]_vars

\* on an initialized instance with no pool, an operation has ended with the
\* rendering error, and there is still no pool
C17_Witness ==
    /\ initCalls > 0 /\ pool = NoPool /\ Built = {}
    /\ pc[1] = "done" /\ outcome[1] = "CompileError" /\ pc[2] = "idle"

\* C18: only a call of init changes _dsn or _metadata; a step of a query
\* operation or of close() changes none of _dsn, _metadata, _engine; and a
\* DDL call that is not a call of init changes none of _dsn, _metadata,
\* _pool, nor any pool.
C18_Frame ==
    [][/\ (dsn' # dsn \/ metadata' # metadata) => initCalls' = initCalls + 1
       /\ ((\E o \in Ops : pc'[o] # pc[o]) \/ cpc' # cpc) =>
             UNCHANGED <<dsn, metadata, engine>>
       /\ (initCalls' = initCalls /\ (lastDDL' # lastDDL \/ engine' # engine)) =>
             UNCHANGED <<dsn, metadata, pool, poolState, poolDsn, out>>
      ]_vars

\* with an engine, a bound connection string and metadata in place, a close()
\* has closed the pool a query had built
C18_Witness ==
    /\ engine # None /\ dsn # None /\ metadata # None
    /\ cpc = "done" /\ closeLog = <<"Pool.close", "debug">>
    /\ \E o \in Ops : pc[o] = "done" /\ outcome[o] = "ok"

====
